---- MODULE Spec2Model ----
(***************************************************************************)
(* A model of tumu_cdb: the CDB writer (CDBMake), the atomic file writer   *)
(* (CDBWriter) and the reader (CDB, CDBValueIter, CDBKeyValueIter).        *)
(*                                                                         *)
(* Machine integers.  The program computes with u32 and usize values up to *)
(* and beyond 2^32, which is more than a TLC integer holds, so every       *)
(* machine integer is kept as a pair <<hi, lo>> of 16-bit limbs standing   *)
(* for hi * 2^16 + lo (hi itself may exceed 16 bits for a usize).          *)
(*                                                                         *)
(* Byte strings.  A byte string (slice, Vec<u8>, file contents) is a       *)
(* record [len, nz]: len is its length and nz maps the indices of its      *)
(* non-zero bytes to their values; every other byte below len is zero.     *)
(* Two byte strings are equal exactly when their records are equal.        *)
(***************************************************************************)
EXTENDS Integers, Sequences, FiniteSets, TLC

\* Option<T>: None is the empty tuple, Some(x) the one-element tuple
None == <<>>

Some(x) == <<x>>

\* ------------------------------------------------------------------------
\* Machine integers as <<hi, lo>> limbs
\* ------------------------------------------------------------------------
Base == 256 * 256

N(i) == <<i \div Base, i % Base>>

ToInt(a) == a[1] * Base + a[2]

Plus(a, b) == <<a[1] + b[1] + ((a[2] + b[2]) \div Base), (a[2] + b[2]) % Base>>

Lt(a, b) == a[1] < b[1] \/ (a[1] = b[1] /\ a[2] < b[2])

Le(a, b) == a = b \/ Lt(a, b)

Minus(a, b) ==
    IF a[2] >= b[2] THEN <<a[1] - b[1], a[2] - b[2]>>
                    ELSE <<a[1] - b[1] - 1, a[2] + Base - b[2]>>

MaxW(a, b) == IF Lt(a, b) THEN b ELSE a

MinW(a, b) == IF Lt(a, b) THEN a ELSE b

\* the value fits a u32
Fits32(a) == a[1] < Base

\* the value reduced modulo 2^32 (a wrapping u32 operation, an `as u32` cast)
Wrap32(a) == <<a[1] % Base, a[2]>>

\* 0xffffffff
U32Max == <<Base - 1, Base - 1>>

\* u32 << 3: bits shifted out of the word are dropped
Shl3(a) == Wrap32(<<a[1] * 8 + ((a[2] * 8) \div Base), (a[2] * 8) % Base>>)

\* u32 >> 8, always below 2^24, as a plain integer
Shr8(a) == a[1] * 256 + (a[2] \div 256)

\* u32 & 0xff as a plain integer
Low8(a) == a[2] % 256

\* x % m for a plain x < 2^24 and a non-zero u32 m
ModW(x, m) == IF m[1] >= 256 THEN x ELSE x % ToInt(m)

\* ------------------------------------------------------------------------
\* Byte strings
\* ------------------------------------------------------------------------
Bytes(q) ==
    [len |-> N(Len(q)),
     nz  |-> [k \in {N(i - 1) : i \in {j \in 1..Len(q) : q[j] # 0}}
                |-> q[ToInt(k) + 1]]]

Zeros(n) == [len |-> n, nz |-> [k \in {} |-> 0]]

ByteAt(s, i) == IF i \in DOMAIN s.nz THEN s.nz[i] ELSE 0

\* s[a..b], for a <= b <= s.len
Slice(s, a, b) ==
    [len |-> Minus(b, a),
     nz  |-> [k \in {Minus(j, a) : j \in {x \in DOMAIN s.nz : Le(a, x) /\ Lt(x, b)}}
                |-> s.nz[Plus(k, a)]]]

\* s with the bytes of buf stored at at.., growing s when buf reaches past its end
Overwrite(s, at, buf) ==
    LET end  == Plus(at, buf.len)
        keep == {x \in DOMAIN s.nz : Lt(x, at) \/ Le(end, x)}
        new  == {Plus(at, k) : k \in DOMAIN buf.nz}
    IN  [len |-> MaxW(s.len, end),
         nz  |-> [x \in keep \cup new |->
                    IF x \in new THEN buf.nz[Minus(x, at)] ELSE s.nz[x]]]

\* ------------------------------------------------------------------------
\* uint32.rs: little-endian codec
\* ------------------------------------------------------------------------
\* the four bytes of a u32, least significant first
pack(src) == <<src[2] % 256, src[2] \div 256, src[1] % 256, src[1] \div 256>>

pack2(src0, src1) == pack(src0) \o pack(src1)

\* the u32 stored in the four bytes of s at offset at
unpack(s, at) ==
    <<ByteAt(s, Plus(at, N(3))) * 256 + ByteAt(s, Plus(at, N(2))),
      ByteAt(s, Plus(at, N(1))) * 256 + ByteAt(s, at)>>

unpack2(s, at) == <<unpack(s, at), unpack(s, Plus(at, N(4)))>>

\* ------------------------------------------------------------------------
\* hash.rs: the CDB hash
\* ------------------------------------------------------------------------
RECURSIVE Xor8(_, _, _)
\* the exclusive or of the low n bits of a and b
Xor8(a, b, n) ==
    IF n = 0 THEN 0
    ELSE (((a % 2) + (b % 2)) % 2) + 2 * Xor8(a \div 2, b \div 2, n - 1)

HashStart == 5381

\* h <- ((h << 5) + h) XOR b, modulo 2^32
HashStep(h, b) ==
    LET lo33 == h[2] * 33
        hi33 == h[1] * 33 + (lo33 \div Base)
        lo   == lo33 % Base
    IN  <<hi33 % Base, (lo - (lo % 256)) + Xor8(lo % 256, b, 8)>>

RECURSIVE HashFrom(_, _, _)
HashFrom(h, key, i) ==
    IF i = ToInt(key.len) THEN h
    ELSE HashFrom(HashStep(h, ByteAt(key, N(i))), key, i + 1)

hash(key) == HashFrom(N(HashStart), key, 0)

\* ------------------------------------------------------------------------
\* vecbuf.rs: the in-memory sink; a File opened for writing stores bytes at
\* its cursor the same way
\* ------------------------------------------------------------------------
VecBuf_new == [inner |-> Zeros(N(0)), pos |-> N(0)]

\* seek(SeekFrom::Start(n))
VecBuf_seek(f, n) == [f EXCEPT !.pos = n]

\* write(buf) with the cursor inside the buffer or at its end: the first
\* inlen bytes overwrite, the rest extend
Extend(over, rest) == Overwrite(over, over.len, rest)

VecBuf_write(f, buf) ==
    LET inlen == MinW(buf.len, Minus(f.inner.len, f.pos))
    IN  [inner |-> Extend(Overwrite(f.inner, f.pos, Slice(buf, N(0), inlen)),
                          Slice(buf, inlen, buf.len)),
         pos   |-> Plus(f.pos, buf.len)]

\* ------------------------------------------------------------------------
\* writer.rs: CDBMake
\*
\* A maker in the middle of an operation is a record
\*   entries, pos, file : the fields of CDBMake
\*   left : how many more sink operations succeed before one fails
\*          (NeverFails for a sink that cannot fail)
\*   res  : "Ok", or the error the operation has returned with
\*   ovf  : a u32 addition has overflowed; a build with overflow checks
\*          panics there, a build without them continues as recorded
\*   log  : the operations the sink has carried out during this operation:
\*          [op |-> "seek", to], [op |-> "write", at, buf] (at is the
\*          sink's cursor when the write is made) and [op |-> "flush"]
\* Once res is not "Ok" the operation has returned and nothing more happens.
\* ------------------------------------------------------------------------
HeaderSize == 2048

NBuckets == 256

NeverFails == 0 - 1

\* one sink operation made through `?`
SinkOp(w, file, op) ==
    IF w.res # "Ok" THEN w
    ELSE IF w.left = 0 THEN [w EXCEPT !.res = "Io"]
    ELSE [w EXCEPT !.file = file,
                   !.left = IF w.left = NeverFails THEN NeverFails ELSE w.left - 1,
                   !.log  = Append(@, op)]

\* self.file.write(buf)?
SinkWrite(w, buf) ==
    SinkOp(w, VecBuf_write(w.file, buf), [op |-> "write", at |-> w.file.pos, buf |-> buf])

\* self.file.seek(SeekFrom::Start(n))?
SinkSeek(w, n) == SinkOp(w, VecBuf_seek(w.file, n), [op |-> "seek", to |-> n])

\* self.file.flush()?
SinkFlush(w) == SinkOp(w, w.file, [op |-> "flush"])

CDBMake_new(file, left) ==
    SinkWrite(SinkSeek([entries |-> [i \in 0..(NBuckets - 1) |-> <<>>],
                        pos |-> N(HeaderSize), file |-> file, left |-> left,
                        res |-> "Ok", ovf |-> FALSE, log |-> <<>>],
                       N(0)),
              Zeros(N(HeaderSize)))

pos_plus(w, len) ==
    IF w.res # "Ok" THEN w
    ELSE LET sum == Plus(w.pos, len)
         IN  IF Lt(Wrap32(sum), len)
             THEN [w EXCEPT !.res = "TooBig", !.ovf = @ \/ ~Fits32(sum)]
             ELSE [w EXCEPT !.pos = Wrap32(sum), !.ovf = @ \/ ~Fits32(sum)]

add_end(w, keylen, datalen, h) ==
    IF w.res # "Ok" THEN w
    ELSE LET pushed == [w EXCEPT !.entries[Low8(h)] =
                                   Append(@, [hash |-> h, pos |-> w.pos])]
         IN  pos_plus(pos_plus(pos_plus(pushed, N(8)), keylen), datalen)

add_begin(w, keylen, datalen) == SinkWrite(w, Bytes(pack2(keylen, datalen)))

\* add with the size test made after the record header has been written
CDBMake_add_LateTest(w, key, data) ==
    IF ~Lt(key.len, U32Max) \/ ~Lt(data.len, U32Max)
    THEN [add_begin(w, Wrap32(key.len), Wrap32(data.len)) EXCEPT !.res = "TooLarge"]
    ELSE add_end(SinkWrite(SinkWrite(add_begin(w, Wrap32(key.len), Wrap32(data.len)),
                                     key),
                           data),
                 Wrap32(key.len), Wrap32(data.len), hash(key))

CDBMake_add(w, key, data) ==
    IF ~Lt(key.len, U32Max) \/ ~Lt(data.len, U32Max)
    THEN [w EXCEPT !.res = "TooLarge"]
    ELSE add_end(SinkWrite(SinkWrite(add_begin(w, Wrap32(key.len), Wrap32(data.len)),
                                     key),
                           data),
                 Wrap32(key.len), Wrap32(data.len), hash(key))

\* 0xffffffff / 8
TableLimit == 536870911

EmptySlot == [hash |-> N(0), pos |-> N(0)]

\* entries.iter().fold(1, |acc, e| max(acc, e.len() * 2))
MaxSize(entries) ==
    LET sizes == {1} \cup {Len(entries[i]) * 2 : i \in DOMAIN entries}
    IN  CHOOSE m \in sizes : \A x \in sizes : x <= m

RECURSIVE CountRange(_, _, _)
\* the number of entries in buckets lo..hi-1 (the range is halved to keep
\* the evaluation shallow)
CountRange(entries, lo, hi) ==
    IF hi - lo = 1 THEN Len(entries[lo])
    ELSE CountRange(entries, lo, (lo + hi) \div 2)
         + CountRange(entries, (lo + hi) \div 2, hi)

\* entries.iter().fold(0, |acc, e| acc + e.len())
Count(entries) == CountRange(entries, 0, NBuckets)

RECURSIVE Probe_FromZero(_, _, _)
\* a probe that starts at slot 0 whatever the home slot is
Probe_FromZero(table, wh, len) ==
    IF table[1].pos = N(0) THEN 0
    ELSE 1 + Probe_FromZero(Tail(table), wh, len)

RECURSIVE Probe(_, _, _)
\* while table[wh].pos != 0 { wh += 1; if wh == len { wh = 0 } }
Probe(table, wh, len) ==
    IF table[wh + 1].pos # N(0)
    THEN Probe(table, IF wh + 1 = len THEN 0 ELSE wh + 1, len)
    ELSE wh

RECURSIVE InsertEntries(_, _, _)
\* for e in self.entries[i].iter() { ...; table[wh] = *e }
InsertEntries(table, es, len) ==
    IF es = <<>> THEN table
    ELSE LET e  == Head(es)
             wh == Probe(table, Shr8(e.hash) % len, len)
         IN  InsertEntries([table EXCEPT ![wh + 1] = e], Tail(es), len)

\* self.file.write(&uint32::pack2(hp.hash, hp.pos))?; self.pos_plus(8)?
WriteSlot(w, hp) == pos_plus(SinkWrite(w, Bytes(pack2(hp.hash, hp.pos))), N(8))

RECURSIVE WriteTable_NoClear(_, _, _, _)
\* the table written without the slots being cleared afterwards
WriteTable_NoClear(w, table, k, len) ==
    IF k = len \/ w.res # "Ok" THEN [w |-> w, table |-> table]
    ELSE WriteTable_NoClear(WriteSlot(w, table[k + 1]), table, k + 1, len)

RECURSIVE WriteTable(_, _, _, _)
\* for hp in table.iter_mut().take(len) { write; pos_plus(8)?; clear }
WriteTable(w, table, k, len) ==
    IF k = len \/ w.res # "Ok" THEN [w |-> w, table |-> table]
    ELSE WriteTable(WriteSlot(w, table[k + 1]),
                    [table EXCEPT ![k + 1] = EmptySlot], k + 1, len)

\* the body of `for i in 0..256`: st holds the maker, the 2048-byte header
\* array and the scratch table
\* header[i * 8..i * 8 + 8].copy_from_slice(&uint32::pack2(pos, len))
SetHeader(header, j, p) ==
    [header EXCEPT ![j + 1] = p[1], ![j + 2] = p[2], ![j + 3] = p[3],
                   ![j + 4] = p[4], ![j + 5] = p[5], ![j + 6] = p[6],
                   ![j + 7] = p[7], ![j + 8] = p[8]]

BucketDone(wt, header) == [w |-> wt.w, header |-> header, table |-> wt.table]

\* the loop body recording an empty table as the pair (0, 0)
FinishBucket_ZeroPair(st, i) ==
    IF st.w.res # "Ok" THEN st
    ELSE LET len == Len(st.w.entries[i]) * 2
         IN  BucketDone(WriteTable(st.w,
                                   InsertEntries(st.table, st.w.entries[i], len),
                                   0, len),
                        SetHeader(st.header, i * 8,
                                  IF len = 0 THEN pack2(N(0), N(0))
                                  ELSE pack2(st.w.pos, N(len))))

FinishBucket(st, i) ==
    IF st.w.res # "Ok" THEN st
    ELSE LET len == Len(st.w.entries[i]) * 2
         IN  BucketDone(WriteTable(st.w,
                                   InsertEntries(st.table, st.w.entries[i], len),
                                   0, len),
                        SetHeader(st.header, i * 8, pack2(st.w.pos, N(len))))

RECURSIVE FinishLoop(_, _, _)
\* the iterations lo..hi-1 of the loop, in order (the range is halved to
\* keep the evaluation shallow)
FinishLoop(st, lo, hi) ==
    IF hi - lo = 1 THEN FinishBucket(st, lo)
    ELSE LET left == FinishLoop(st, lo, (lo + hi) \div 2)
         IN  IF left.w.res # "Ok" THEN left
             ELSE FinishLoop(left, (lo + hi) \div 2, hi)

\* the header written where the cursor is, without the seek to 0
WriteHeader_NoSeek(done) ==
    SinkFlush(SinkWrite(SinkFlush(done.w), Bytes(done.header)))

\* the header written without the flush that precedes the seek
WriteHeader_OneFlush(done) ==
    SinkFlush(SinkWrite(SinkSeek(done.w, N(0)), Bytes(done.header)))

\* flush; seek(SeekFrom::Start(0)); write(&header); flush
WriteHeader(done) ==
    SinkFlush(SinkWrite(SinkSeek(SinkFlush(done.w), N(0)), Bytes(done.header)))

CDBMake_finish(w) ==
    IF MaxSize(w.entries) + Count(w.entries) > TableLimit
    THEN [w EXCEPT !.res = "TooBig"]
    ELSE WriteHeader(FinishLoop([w      |-> w,
                                 header |-> [x \in 1..HeaderSize |-> 0],
                                 table  |-> [k \in 1..MaxSize(w.entries) |-> EmptySlot]],
                                0, NBuckets))

\* ------------------------------------------------------------------------
\* writer.rs: CDBWriter
\*
\* A path is a sequence of name parts, so that appending a suffix is \o.
\* The file system fs maps a path to Some(contents) or None.  The CDBMake
\* inside the writer writes straight to the temporary file, whose contents
\* are therefore the contents of the maker's sink.  Each operation is given
\* the outcome of the system calls it makes: whether File::create, rename and
\* remove_file succeed, and how many sink operations succeed (left).
\* ------------------------------------------------------------------------
\* fs::rename(from, to)
rename(files, from, to) ==
    IF from = to THEN files
    ELSE [files EXCEPT ![to] = files[from], ![from] = None]

\* the maker's sink as the contents of the file it writes to
Stored_file(files, path, w) == [files EXCEPT ![path] = Some(w.file.inner)]

Made(files, filename, tmpname, w) ==
    [fs  |-> Stored_file(files, tmpname, w),
     res |-> w.res,
     ret |-> IF w.res = "Ok"
             THEN Some([dstname |-> filename, tmpname |-> tmpname,
                        cdb |-> Some([entries |-> w.entries, pos |-> w.pos,
                                      file |-> w.file])])
             ELSE None]

\* let file = fs::File::create(&tmpname)?; let cdb = CDBMake::new(file)?
with_filenames(files, filename, tmpname, createOk, left) ==
    IF ~createOk THEN [fs |-> files, res |-> "Io", ret |-> None]
    ELSE Made(files, filename, tmpname, CDBMake_new(VecBuf_new, left))

\* with_suffix that leaves the suffix out of the temporary name
with_suffix_NoSuffix(files, filename, suffix, createOk, left) ==
    with_filenames(files, filename, filename, createOk, left)

\* tmpname = filename.to_string(); tmpname.push_str(suffix)
with_suffix(files, filename, suffix, createOk, left) ==
    with_filenames(files, filename, filename \o suffix, createOk, left)

TmpSuffix == <<".tmp">>

CDBWriter_create(files, filename, createOk, left) ==
    with_suffix(files, filename, TmpSuffix, createOk, left)

WriterAdded(files, wr, w) ==
    [fs  |-> Stored_file(files, wr.tmpname, w),
     res |-> w.res,
     wr  |-> [wr EXCEPT !.cdb = Some([entries |-> w.entries, pos |-> w.pos,
                                      file |-> w.file])]]

\* self.cdb.as_mut().unwrap().add(key, data)
CDBWriter_add(files, wr, key, data, left) ==
    WriterAdded(files, wr,
                CDBMake_add([entries |-> wr.cdb[1].entries, pos |-> wr.cdb[1].pos,
                             file |-> wr.cdb[1].file, left |-> left,
                             res |-> "Ok", ovf |-> FALSE, log |-> <<>>],
                            key, data))

\* Drop for CDBWriter: if let Some(_) = self.cdb { fs::remove_file(&self.tmpname); }
\* the result of remove_file is not looked at
CDBWriter_drop(files, wr, removeOk) ==
    IF wr.cdb # None /\ removeOk THEN [files EXCEPT ![wr.tmpname] = None]
    ELSE files

\* what follows `self.cdb.take().unwrap().finish()` in CDBWriter::finish: `?`,
\* the rename, and the drop of self, whose cdb the take() has left None
WriterFinished(files, wr, w, renameOk, removeOk) ==
    IF w.res # "Ok"
    THEN [fs  |-> CDBWriter_drop(Stored_file(files, wr.tmpname, w),
                                 [wr EXCEPT !.cdb = None], removeOk),
          res |-> w.res]
    ELSE IF ~renameOk
    THEN [fs  |-> CDBWriter_drop(Stored_file(files, wr.tmpname, w),
                                 [wr EXCEPT !.cdb = None], removeOk),
          res |-> "Io"]
    ELSE [fs  |-> CDBWriter_drop(rename(Stored_file(files, wr.tmpname, w),
                                        wr.tmpname, wr.dstname),
                                 [wr EXCEPT !.cdb = None], removeOk),
          res |-> "Ok"]

CDBWriter_finish(files, wr, left, renameOk, removeOk) ==
    WriterFinished(files, wr,
                   CDBMake_finish([entries |-> wr.cdb[1].entries, pos |-> wr.cdb[1].pos,
                                   file |-> wr.cdb[1].file, left |-> left,
                                   res |-> "Ok", ovf |-> FALSE, log |-> <<>>]),
                   renameOk, removeOk)

\* ------------------------------------------------------------------------
\* reader.rs: CDB
\*
\* A call of the reader returns a record with the fields
\*   panic : the call panics in every build (a slice index out of range)
\*   ovf   : a u32 addition has overflowed; a build with overflow checks
\*           panics there, a build without them continues as recorded
\* next to its results.
\* ------------------------------------------------------------------------
\* 2048 + 8 + 8
MinSize == 2064

\* the length test of CDB::open and CDB::from_filedes
LenRejected(len) == Lt(len, N(MinSize)) \/ Lt(U32Max, len)

CDB_open(image) ==
    IF LenRejected(image.len) THEN None
    ELSE Some([file |-> image, size |-> image.len])

CDB_from_filedes(image) ==
    IF LenRejected(image.len) THEN None
    ELSE Some([file |-> image, size |-> image.len])

CDB_copy_from_slice(s) == Some([file |-> s, size |-> s.len])

\* self.file.get(pos..pos + len)
CDB_read(cdb, len, pos) ==
    IF Le(Plus(pos, len), cdb.file.len)
    THEN Some(Slice(cdb.file, pos, Plus(pos, len)))
    ELSE None

hash_table(cdb, khash) ==
    LET x      == N(Low8(khash) * 8)
        hpos   == unpack(cdb.file, x)
        hslots == unpack(cdb.file, Plus(x, N(4)))
        sum    == Plus(hpos, N(ModW(Shr8(khash), hslots) * 8))
    IN  IF Lt(cdb.file.len, Plus(x, N(8)))
        THEN [panic |-> TRUE, ovf |-> FALSE,
              hpos |-> N(0), hslots |-> N(0), kpos |-> N(0)]
        ELSE IF Lt(N(0), hslots)
        THEN [panic |-> FALSE, ovf |-> ~Fits32(sum),
              hpos |-> hpos, hslots |-> hslots, kpos |-> Wrap32(sum)]
        ELSE [panic |-> FALSE, ovf |-> FALSE,
              hpos |-> hpos, hslots |-> hslots, kpos |-> N(0)]

\* match_key without the comparison: any readable key matches
match_key_Unchecked(cdb, key, pos) == CDB_read(cdb, key.len, pos) # None

\* self.read(len, pos).map(|x| x == key).unwrap_or(false)
match_key(cdb, key, pos) ==
    LET x == CDB_read(cdb, key.len, pos)
    IN  IF x = None THEN FALSE ELSE x[1] = key

\* Advance without the wrap to the start of the table
Advance_NoWrap(it) ==
    [it  |-> [it EXCEPT !.kloop = Plus(it.kloop, N(1)),
                        !.kpos  = Wrap32(Plus(it.kpos, N(8)))],
     ovf |-> ~Fits32(Plus(it.kpos, N(8)))
             \/ ~Fits32(Plus(it.hpos, Shl3(it.hslots)))]

\* self.kloop += 1; self.kpos += 8;
\* if self.kpos == self.hpos + (self.hslots << 3) { self.kpos = self.hpos }
Advance(it) ==
    LET kpos8 == Plus(it.kpos, N(8))
        tend  == Plus(it.hpos, Shl3(it.hslots))
    IN  [it  |-> [it EXCEPT !.kloop = Plus(it.kloop, N(1)),
                            !.kpos  = IF Wrap32(kpos8) = Wrap32(tend)
                                      THEN it.hpos ELSE Wrap32(kpos8)],
         ovf |-> ~Fits32(kpos8) \/ ~Fits32(tend)]

\* CDBValueIter::find
CDBValueIter_find(cdb, key) ==
    LET khash == hash(key)
        t     == hash_table(cdb, khash)
    IN  [panic |-> t.panic, ovf |-> t.ovf,
         it |-> [key |-> key, khash |-> khash, kloop |-> N(0),
                 kpos |-> t.kpos, hpos |-> t.hpos, hslots |-> t.hslots]]

RECURSIVE CDBValueIter_next(_, _, _)
\* one call of next(): the while loop runs until it returns; ovf is the
\* overflow flag accumulated so far
CDBValueIter_next(cdb, it, ovf) ==
    IF ~Lt(it.kloop, it.hslots) THEN [it |-> it, ret |-> None, ovf |-> ovf]
    ELSE
    LET p == CDB_read(cdb, N(8), it.kpos) IN
    IF p = None THEN [it |-> it, ret |-> None, ovf |-> ovf]
    ELSE
    LET khash == unpack(p[1], N(0))
        pos   == unpack(p[1], N(4))
    IN
    IF pos = N(0) THEN [it |-> it, ret |-> None, ovf |-> ovf]
    ELSE
    LET ovf1  == ovf \/ Advance(it).ovf
        it1   == Advance(it).it
    IN
    IF khash # it.khash THEN CDBValueIter_next(cdb, it1, ovf1)
    ELSE
    LET q == CDB_read(cdb, N(8), pos) IN
    IF q = None THEN [it |-> it1, ret |-> None, ovf |-> ovf1]
    ELSE
    LET klen  == unpack(q[1], N(0))
        dlen  == unpack(q[1], N(4))
        pos8  == Plus(pos, N(8))
        dpos  == Plus(Wrap32(pos8), Wrap32(it.key.len))
    IN
    IF klen # it.key.len THEN CDBValueIter_next(cdb, it1, ovf1)
    ELSE IF ~match_key(cdb, it.key, Wrap32(pos8))
    THEN CDBValueIter_next(cdb, it1, ovf1 \/ ~Fits32(pos8))
    ELSE [it |-> it1, ret |-> CDB_read(cdb, dlen, Wrap32(dpos)),
          ovf |-> ovf1 \/ ~Fits32(pos8) \/ ~Fits32(dpos)]

\* CDB::get
\* self.find(key).next()
FirstOf(cdb, f) ==
    IF f.panic THEN [panic |-> TRUE, ovf |-> FALSE, ret |-> None]
    ELSE [panic |-> FALSE,
          ovf   |-> CDBValueIter_next(cdb, f.it, f.ovf).ovf,
          ret   |-> CDBValueIter_next(cdb, f.it, f.ovf).ret]

CDB_get(cdb, key) == FirstOf(cdb, CDBValueIter_find(cdb, key))

\* CDBKeyValueIter::start
CDBKeyValueIter_start(cdb) ==
    IF Lt(cdb.file.len, N(4))
    THEN [panic |-> TRUE, it |-> [pos |-> N(HeaderSize), data_end |-> N(0)]]
    ELSE [panic |-> FALSE,
          it |-> [pos |-> N(HeaderSize),
                  data_end |-> MinW(unpack(cdb.file, N(0)), Wrap32(cdb.size))]]

BadFormat == [ok |-> FALSE]

\* CDBKeyValueIter::next
CDBKeyValueIter_next(cdb, it) ==
    LET pos8 == Plus(it.pos, N(8)) IN
    IF ~Lt(Wrap32(pos8), it.data_end)
    THEN [it |-> it, ret |-> None, panic |-> FALSE, ovf |-> ~Fits32(pos8)]
    ELSE IF Lt(cdb.file.len, Plus(it.pos, N(8)))
    THEN [it |-> it, ret |-> None, panic |-> TRUE, ovf |-> ~Fits32(pos8)]
    ELSE
    LET klen   == unpack(cdb.file, it.pos)
        dlen   == unpack(cdb.file, Plus(it.pos, N(4)))
        pk     == Plus(it.pos, klen)
        pkd    == Plus(Wrap32(pk), dlen)
        ovf1   == ~Fits32(pos8) \/ ~Fits32(pk) \/ ~Fits32(pkd)
    IN
    IF ~Lt(Wrap32(pkd), it.data_end)
    THEN [it |-> it, ret |-> Some(BadFormat), panic |-> FALSE, ovf |-> ovf1]
    ELSE
    LET kpos   == Wrap32(pos8)
        dpos   == Plus(kpos, klen)
        dend   == Plus(dpos, dlen)
        k8     == Plus(N(8), klen)
        k8d    == Plus(Wrap32(k8), dlen)
        npos   == Plus(it.pos, Wrap32(k8d))
        ovf2   == ovf1 \/ ~Fits32(k8) \/ ~Fits32(k8d) \/ ~Fits32(npos)
    IN
    IF Lt(cdb.file.len, dend)
    THEN [it |-> it, ret |-> None, panic |-> TRUE, ovf |-> ovf1]
    ELSE [it |-> [it EXCEPT !.pos = Wrap32(npos)],
          ret |-> Some([ok |-> TRUE,
                        key |-> Slice(cdb.file, kpos, dpos),
                        value |-> Slice(cdb.file, dpos, dend)]),
          panic |-> FALSE, ovf |-> ovf2]

\* ------------------------------------------------------------------------
\* Inputs
\* ------------------------------------------------------------------------
\* the most records one build receives
MaxRecs == 2

\* how many times next() is called again after it has returned end
MaxEnds == 2

\* the most items one full iteration is asked for
MaxYield == 4

KeyEmpty == Bytes(<<>>)

\* a proper prefix of KeyHH, in another bucket; looked up, never added
KeyH == Bytes(<<104>>)

\* bucket 5 like the empty key; its home slot is the last slot of a table
\* of 2, 4 or 6 slots
KeyHH == Bytes(<<104, 104>>)

\* the same 32-bit hash as KeyHH
KeyII == Bytes(<<105, 73>>)

\* the same bucket and home slot as KeyHH, another hash
KeyBB == Bytes(<<176, 176>>)

\* the keys looked up
Keys == {KeyEmpty, KeyH, KeyHH, KeyII, KeyBB}

\* the keys added
AddKeys == {KeyEmpty, KeyHH, KeyII, KeyBB}

Vals == {Bytes(<<>>), Bytes(<<7>>)}

\* keys and values add() must reject: 2^32 - 1 and 2^32 bytes long
Oversized == {Zeros(U32Max), Zeros(Plus(U32Max, N(1)))}

\* the records add() is called with
Records ==
    (AddKeys \X Vals) \cup (Oversized \X {Bytes(<<>>)}) \cup ({KeyEmpty} \X Oversized)

\* ------------------------------------------------------------------------
\* State
\* ------------------------------------------------------------------------
VARIABLES
    make,       \* Option<CDBMake>: [entries, pos, file]
    image,      \* Option: the bytes a reader is constructed over
    cdb,        \* Option<CDB>: [file, size]
    viter,      \* Option<CDBValueIter>
    kviter,     \* Option<CDBKeyValueIter>
    vout,       \* what viter has returned: [vals, ends]
    kvout,      \* what kviter has returned: [items, ends]
    added,      \* the records add() has accepted, in order
    last,       \* the last call and its result
    panicked,   \* the process has panicked
    fs,         \* the file system: path -> Option<contents>
    writer,     \* Option<CDBWriter>: [dstname, tmpname, cdb]
    before,     \* what the destination held when the writer was created
    pool,       \* the iterators alive over cdb: id -> Option
    vb,         \* Option: a no_std VecBuf and a std VecBuf given the same calls
    sunk        \* the operations the sink of make has received, in order

vars == <<make, image, cdb, viter, kviter, vout, kvout, added, last, panicked,
          fs, writer, before, pool, vb, sunk>>

NoOut == [vals |-> <<>>, ends |-> 0]

NoItems == [items |-> <<>>, ends |-> 0]

\* the most iterators alive at once
MaxIters == 2

\* the most next() calls made on one of them
MaxCalls == 3

NoPool == [id \in 1..MaxIters |-> None]

\* a maker at the start of an operation, and what remains of it afterwards
Begin(mk, left) ==
    [entries |-> mk.entries, pos |-> mk.pos, file |-> mk.file,
     left |-> left, res |-> "Ok", ovf |-> FALSE, log |-> <<>>]

Maker(w) == [entries |-> w.entries, pos |-> w.pos, file |-> w.file]

Panic(op) ==
    /\ panicked' = TRUE
    /\ last' = [op |-> op, res |-> "panic"]
    /\ UNCHANGED <<make, image, cdb, viter, kviter, vout, kvout, added, fs, writer, before, pool, vb, sunk>>

\* ------------------------------------------------------------------------
\* Writer actions: CDBMake over a VecBuf
\*
\* Where a u32 addition overflows (ovf) the action has two outcomes: the
\* panic of a build with overflow checks and the continuation of a build
\* without them.
\* ------------------------------------------------------------------------
Add(key, data) ==
    /\ ~panicked /\ make # None /\ Len(added) < MaxRecs
    /\ \E w \in {CDBMake_add(Begin(make[1], NeverFails), key, data)} :
           \/ /\ w.ovf
              /\ Panic("add")
           \/ /\ make' = Some(Maker(w))
              /\ added' = IF w.res = "Ok"
                          THEN Append(added, [key |-> key, value |-> data])
                          ELSE added
              /\ last' = [op |-> "add", res |-> w.res,
                           klen |-> key.len, dlen |-> data.len]
              /\ sunk' = sunk \o w.log
              /\ UNCHANGED <<image, cdb, viter, kviter, vout, kvout, panicked, fs, writer, before, pool, vb>>

Finish ==
    /\ ~panicked /\ make # None
    /\ \E w \in {CDBMake_finish(Begin(make[1], NeverFails))} :
           \/ /\ w.ovf
              /\ Panic("finish")
           \/ /\ make' = None
              /\ image' = IF w.res = "Ok" THEN Some(w.file.inner) ELSE None
              /\ last' = [op |-> "finish", res |-> w.res]
              /\ sunk' = sunk \o w.log
              /\ UNCHANGED <<cdb, viter, kviter, vout, kvout, added, panicked, fs, writer, before, pool, vb>>

\* ------------------------------------------------------------------------
\* Reader actions
\* ------------------------------------------------------------------------
Constructed(op, r) ==
    /\ cdb' = r
    /\ last' = [op |-> op, res |-> IF r = None THEN "BadFormat" ELSE "Ok"]
    /\ UNCHANGED <<make, image, viter, kviter, vout, kvout, added, panicked, fs, writer, before, pool, vb, sunk>>

Open ==
    /\ ~panicked /\ image # None /\ cdb = None
    /\ Constructed("open", CDB_open(image[1]))

FromFiledes ==
    /\ ~panicked /\ image # None /\ cdb = None
    /\ Constructed("from_filedes", CDB_from_filedes(image[1]))

CopyFromSlice ==
    /\ ~panicked /\ image # None /\ cdb = None
    /\ Constructed("copy_from_slice", CDB_copy_from_slice(image[1]))

Find(key) ==
    /\ ~panicked /\ cdb # None /\ viter = None /\ kviter = None
    /\ \E f \in {CDBValueIter_find(cdb[1], key)} :
           \/ /\ f.panic \/ f.ovf
              /\ Panic("find")
           \/ /\ ~f.panic
              /\ viter' = Some(f.it)
              /\ vout' = NoOut
              /\ last' = [op |-> "find", res |-> "Ok"]
              /\ UNCHANGED <<make, image, cdb, kviter, kvout, added, panicked, fs, writer, before, pool, vb, sunk>>

ValueNext ==
    /\ ~panicked /\ viter # None /\ vout.ends < MaxEnds
    /\ \E r \in {CDBValueIter_next(cdb[1], viter[1], FALSE)} :
           \/ /\ r.ovf
              /\ Panic("next")
           \/ /\ viter' = Some(r.it)
              /\ vout' = IF r.ret = None
                         THEN [vout EXCEPT !.ends = @ + 1]
                         ELSE [vout EXCEPT !.vals = Append(@, r.ret[1])]
              /\ last' = [op |-> "next", res |-> r.ret]
              /\ UNCHANGED <<make, image, cdb, kviter, kvout, added, panicked, fs, writer, before, pool, vb, sunk>>

Iter ==
    /\ ~panicked /\ cdb # None /\ viter = None /\ kviter = None
    /\ \E s \in {CDBKeyValueIter_start(cdb[1])} :
           \/ /\ s.panic
              /\ Panic("iter")
           \/ /\ ~s.panic
              /\ kviter' = Some(s.it)
              /\ kvout' = NoItems
              /\ last' = [op |-> "iter", res |-> "Ok"]
              /\ UNCHANGED <<make, image, cdb, viter, vout, added, panicked, fs, writer, before, pool, vb, sunk>>

KeyValueNext ==
    /\ ~panicked /\ kviter # None
    /\ kvout.ends < MaxEnds /\ Len(kvout.items) < MaxYield
    /\ \E r \in {CDBKeyValueIter_next(cdb[1], kviter[1])} :
           \/ /\ r.panic \/ r.ovf
              /\ Panic("iter.next")
           \/ /\ ~r.panic
              /\ kviter' = Some(r.it)
              /\ kvout' = IF r.ret = None
                          THEN [kvout EXCEPT !.ends = @ + 1]
                          ELSE [kvout EXCEPT !.items = Append(@, r.ret[1])]
              /\ last' = [op |-> "iter.next", res |-> r.ret]
              /\ UNCHANGED <<make, image, cdb, viter, vout, added, panicked, fs, writer, before, pool, vb, sunk>>

Get(key) ==
    /\ ~panicked /\ cdb # None /\ viter = None /\ kviter = None
    /\ \E r \in {CDB_get(cdb[1], key)} :
           \/ /\ r.panic \/ r.ovf
              /\ Panic("get")
           \/ /\ ~r.panic
              /\ last' = [op |-> "get", res |-> r.ret, key |-> key]
              /\ UNCHANGED <<make, image, cdb, viter, kviter, vout, kvout, added, panicked, fs, writer, before, pool, vb, sunk>>

\* the caller drops its iterator
DropIter ==
    /\ ~panicked /\ (viter # None \/ kviter # None)
    /\ viter' = None /\ kviter' = None
    /\ vout' = NoOut /\ kvout' = NoItems
    /\ last' = [op |-> "drop", res |-> "Ok"]
    /\ UNCHANGED <<make, image, cdb, added, panicked, fs, writer, before, pool, vb, sunk>>

\* ------------------------------------------------------------------------
\* Spec: build an image in memory with CDBMake over a VecBuf, then read it
\* ------------------------------------------------------------------------
Init ==
    /\ make = Some(Maker(CDBMake_new(VecBuf_new, NeverFails)))
    /\ sunk = CDBMake_new(VecBuf_new, NeverFails).log
    /\ image = None
    /\ cdb = None
    /\ viter = None
    /\ kviter = None
    /\ vout = NoOut
    /\ kvout = NoItems
    /\ added = <<>>
    /\ last = [op |-> "new", res |-> "Ok"]
    /\ panicked = FALSE
    /\ fs = <<>>
    /\ writer = None
    /\ before = None
    /\ pool = NoPool
    /\ vb = None

Next ==
    \/ \E r \in Records : Add(r[1], r[2])
    \/ Finish
    \/ Open
    \/ FromFiledes
    \/ CopyFromSlice
    \/ \E key \in Keys : Find(key)
    \/ \E key \in Keys : Get(key)
    \/ ValueNext
    \/ Iter
    \/ KeyValueNext
    \/ DropIter

Spec == Init /\ [][Next]_vars

\* ------------------------------------------------------------------------
\* What the records accepted so far should read back as
\* ------------------------------------------------------------------------
Stored(k) == \E i \in 1..Len(added) : added[i].key = k

RECURSIVE ValuesFrom(_, _)
ValuesFrom(k, i) ==
    IF i > Len(added) THEN <<>>
    ELSE (IF added[i].key = k THEN <<added[i].value>> ELSE <<>>) \o ValuesFrom(k, i + 1)

\* the values added under k, in the order they were added
ValuesOf(k) == ValuesFrom(k, 1)

\* the items a full iteration should yield
ItemsOf(rs) ==
    [i \in 1..Len(rs) |-> [ok |-> TRUE, key |-> rs[i].key, value |-> rs[i].value]]

IsPrefix(a, b) == Len(a) <= Len(b) /\ \A i \in 1..Len(a) : a[i] = b[i]

RECURSIVE AddAll(_, _, _)
AddAll(w, rs, i) ==
    IF i > Len(rs) THEN w
    ELSE AddAll(CDBMake_add(w, rs[i].key, rs[i].value), rs, i + 1)

\* the image of a fresh writer that is given exactly the records rs
ImageOf(rs) ==
    CDBMake_finish(AddAll(CDBMake_new(VecBuf_new, NeverFails), rs, 1)).file.inner

TooLargeArgs(l) == ~Lt(l.klen, U32Max) \/ ~Lt(l.dlen, U32Max)

\* ------------------------------------------------------------------------
\* Claims checked under Spec
\* ------------------------------------------------------------------------
\* C1: a full iteration over the image the writer produced from the records
\* added yields those records, each as Ok((key, value)), in the order they
\* were added, and when it reports the end it has yielded all of them.
C1_RoundTrip ==
    /\ ~panicked
    /\ kviter # None =>
         /\ IsPrefix(kvout.items, ItemsOf(added))
         /\ kvout.ends > 0 => Len(kvout.items) = Len(added)

\* C2: successive next() calls on find(k) yield the values added under k in
\* the order they were added and then the end, and get(k) is the first of
\* them, whatever other keys share k's bucket, home slot or hash.
C2_FindOrder ==
    /\ ~panicked
    /\ viter # None =>
         /\ IsPrefix(vout.vals, ValuesOf(viter[1].key))
         /\ vout.ends > 0 => Len(vout.vals) = Len(ValuesOf(viter[1].key))
    /\ last.op = "get" =>
         /\ Stored(last.key) => last.res = Some(ValuesOf(last.key)[1])
         /\ last.res # None => Stored(last.key)

\* find(KeyBB) has returned its value and then the end, after starting at the
\* last slot of a table of four, which holds KeyHH, and wrapping to slot 0
C2_Witness ==
    /\ Len(added) = 2 /\ added[1].key = KeyHH /\ added[2].key = KeyBB
    /\ Shr8(hash(KeyHH)) % 4 = 3 /\ Shr8(hash(KeyBB)) % 4 = 3
    /\ viter # None /\ viter[1].key = KeyBB
    /\ vout.ends > 0 /\ vout.vals = <<added[2].value>>

\* C3: for a key that is not the key of any record added, find yields no
\* value and get is None.
C3_AbsentKey ==
    /\ ~panicked
    /\ (viter # None /\ ~Stored(viter[1].key)) => vout.vals = <<>>
    /\ (last.op = "get" /\ ~Stored(last.key)) => last.res = None

\* find(KeyII) has reported the end over an image that holds only KeyHH,
\* which has the same hash and the same length
C3_Witness ==
    /\ Len(added) = 1 /\ added[1].key = KeyHH /\ hash(KeyII) = hash(KeyHH)
    /\ viter # None /\ viter[1].key = KeyII
    /\ vout.ends > 0 /\ vout.vals = <<>>

\* C10: add with a key or data of 2^32 - 1 bytes or more returns the
\* TooLarge error and leaves the writer (sink, pos, buckets) as it was, and
\* the image finish produces is the image of the accepted records alone.
C10_RejectedAddNoEffect ==
    [][/\ (make # None /\ ~panicked' /\ last'.op = "add") =>
            /\ TooLargeArgs(last') <=> last'.res = "TooLarge"
            /\ TooLargeArgs(last') => (make' = make /\ sunk' = sunk)
       /\ (make # None /\ ~panicked' /\ last'.op = "finish" /\ last'.res = "Ok") =>
            image' = Some(ImageOf(added))]_vars

\* an oversized add has been rejected by a writer that holds a record
C10_Witness ==
    /\ make # None /\ Len(added) > 0
    /\ last.op = "add" /\ last.res = "TooLarge" /\ TooLargeArgs(last)

\* ------------------------------------------------------------------------
\* The image finish() has just produced, read as a CDB file
\* ------------------------------------------------------------------------
Finished == ~panicked /\ last.op = "finish" /\ last.res = "Ok"

\* header entry i: (hpos_i, hslots_i)
HPos(i) == unpack(image[1], N(8 * i))

HSlots(i) == unpack(image[1], N(8 * i + 4))

\* the records added whose key hashes to bucket i, by their index in added
InBucket(i) == {j \in 1..Len(added) : Low8(hash(added[j].key)) = i}

Buckets == 0..(NBuckets - 1)

\* C12 as stated: hpos_i = 0 exactly when hslots_i = 0, and a table with
\* slots lies at or after 2048 and inside the file.
C12_AsStated ==
    Finished =>
        \A i \in Buckets :
            /\ HPos(i) = N(0) <=> HSlots(i) = N(0)
            /\ HSlots(i) # N(0) =>
                 /\ Le(N(HeaderSize), HPos(i))
                 /\ Le(Plus(HPos(i), Shl3(HSlots(i))), image[1].len)

\* C12 amended: every header entry, that of an empty table included, has
\* 2048 <= hpos_i and hpos_i + 8 * hslots_i <= file length, so that an
\* empty table is recorded as (hpos_i, 0) with hpos_i the offset where the
\* table would begin, never as (0, 0).
C12_HeaderInvariant ==
    Finished =>
        \A i \in Buckets :
            /\ Le(N(HeaderSize), HPos(i))
            /\ Le(Plus(HPos(i), Shl3(HSlots(i))), image[1].len)
            /\ HSlots(i) = N(0) => HPos(i) = (IF i = 0 THEN HPos(0) ELSE
                                              Plus(HPos(i - 1), Shl3(HSlots(i - 1))))

\* finish() has produced an image with records in bucket 5 and none in
\* bucket 0
C12_Witness ==
    /\ Finished
    /\ InBucket(5) # {} /\ InBucket(0) = {}
    /\ HSlots(5) # N(0) /\ HSlots(0) = N(0)

RECURSIVE RecPos(_)
\* where the j-th record added begins: 2048 plus the sizes of those before it
RecPos(j) ==
    IF j = 1 THEN N(HeaderSize)
    ELSE Plus(RecPos(j - 1),
              Plus(N(8), Plus(added[j - 1].key.len, added[j - 1].value.len)))

\* where the j-th record added ends
RecEnd(j) == Plus(RecPos(j), Plus(N(8), Plus(added[j].key.len, added[j].value.len)))

\* slot k of table i: <<khash, rpos>>
Slot(i, k) == unpack2(image[1], Plus(HPos(i), N(8 * k)))

SlotsOf(i) == 0..(ToInt(HSlots(i)) - 1)

\* the image holds the j-th record added at rpos: lengths, key and value
RecordAt(rpos, j) ==
    /\ rpos = RecPos(j)
    /\ unpack2(image[1], rpos) = <<added[j].key.len, added[j].value.len>>
    /\ Slice(image[1], Plus(rpos, N(8)), Plus(Plus(rpos, N(8)), added[j].key.len))
         = added[j].key
    /\ Slice(image[1], Plus(Plus(rpos, N(8)), added[j].key.len), RecEnd(j))
         = added[j].value

\* C13: in the image finish() produces, every non-empty slot (khash, rpos)
\* has rpos >= 2048, rpos the start of a record added that lies inside the
\* data region [2048, hpos_0), and khash the hash of that record's key; every
\* record added is referenced by exactly one slot, in table hash(key) & 0xff;
\* every other slot is the pair (0, 0).
C13_SlotContents ==
    Finished =>
        /\ \A i \in Buckets : \A k \in SlotsOf(i) :
              IF Slot(i, k)[2] = N(0) THEN Slot(i, k)[1] = N(0)
              ELSE /\ Le(N(HeaderSize), Slot(i, k)[2])
                   /\ \E j \in InBucket(i) :
                         /\ RecordAt(Slot(i, k)[2], j)
                         /\ Slot(i, k)[1] = hash(added[j].key)
                         /\ Le(RecEnd(j), HPos(0))
        /\ \A j \in 1..Len(added) :
              Cardinality({k \in SlotsOf(Low8(hash(added[j].key))) :
                             Slot(Low8(hash(added[j].key)), k)[2] = RecPos(j)}) = 1

RECURSIVE SumSlots(_, _)
\* the sum of hslots_i over the buckets lo..hi-1
SumSlots(lo, hi) ==
    IF hi - lo = 1 THEN ToInt(HSlots(lo))
    ELSE SumSlots(lo, (lo + hi) \div 2) + SumSlots((lo + hi) \div 2, hi)

\* the record ("one", "Hello") of the spec's example
OneHello == <<[key |-> Bytes(<<111, 110, 101>>), value |-> Bytes(<<72, 101, 108, 108, 111>>)]>>

\* C14: after finish over the n records added, whose keys and values total D
\* bytes, hslots_i is twice the number of records of bucket i, the hslots_i
\* sum to 2n, the tables follow the data in bucket order without gaps
\* (hpos_0 = 2048 + 8n + D), and the image is 2048 + 8n + D + 16n bytes long;
\* the image of the single record ("one", "Hello") is 2080 bytes long.
C14_TableSizes ==
    Finished =>
        /\ \A i \in Buckets : HSlots(i) = N(2 * Cardinality(InBucket(i)))
        /\ SumSlots(0, NBuckets) = 2 * Len(added)
        /\ HPos(0) = RecPos(Len(added) + 1)
        /\ \A i \in 1..(NBuckets - 1) :
              HPos(i) = Plus(HPos(i - 1), Shl3(HSlots(i - 1)))
        /\ image[1].len = Plus(RecPos(Len(added) + 1), N(16 * Len(added)))
        /\ ImageOf(OneHello).len = N(2080)

\* C15: new followed directly by finish produces an image of exactly 2048
\* bytes whose 256 header entries are all (2048, 0); over a reader of that
\* image every find and get yields nothing and the full iteration yields
\* nothing.
C15_EmptyBuild ==
    /\ (Finished /\ added = <<>>) =>
          /\ image[1].len = N(HeaderSize)
          /\ \A i \in Buckets : HPos(i) = N(HeaderSize) /\ HSlots(i) = N(0)
    /\ added = <<>> =>
          /\ ~panicked
          /\ viter # None => vout.vals = <<>>
          /\ kviter # None => kvout.items = <<>>
          /\ last.op = "get" => last.res = None

\* over the image of the empty build, a find has returned the end
C15_Witness ==
    /\ added = <<>> /\ image # None /\ image[1].len = N(HeaderSize)
    /\ cdb # None /\ viter # None /\ vout.ends > 0

\* the slot of table i that references the j-th record added
SlotOfRec(i, j) == CHOOSE k \in SlotsOf(i) : Slot(i, k)[2] = RecPos(j)

\* how many steps forward, with wrap-around at len, lead from slot a to slot b
Dist(a, b, len) == (b + len - a) % len

\* the home slot of the j-th record added, in a table of len slots
Home(j, len) == Shr8(hash(added[j].key)) % len

\* C18: in every table finish() writes, the entry of each record of the
\* bucket is at the first slot, probing forward with wrap-around from
\* (hash >> 8) mod len, that the records added before it to the same bucket
\* do not occupy; so every slot from an entry's home slot to its own is
\* non-empty, and of two entries with the same hash the one added earlier is
\* nearer to their home slot.
C18_ProbeChain ==
    Finished =>
        \A i \in Buckets : \A j \in InBucket(i) :
            /\ \A k \in SlotsOf(i) :
                  Dist(Home(j, ToInt(HSlots(i))), k, ToInt(HSlots(i)))
                    < Dist(Home(j, ToInt(HSlots(i))), SlotOfRec(i, j), ToInt(HSlots(i)))
                  => \E e \in InBucket(i) : e < j /\ SlotOfRec(i, e) = k
            /\ \A e \in InBucket(i) : e < j => SlotOfRec(i, e) # SlotOfRec(i, j)
            /\ \A e \in InBucket(i) :
                  (e < j /\ hash(added[e].key) = hash(added[j].key)) =>
                      Dist(Home(j, ToInt(HSlots(i))), SlotOfRec(i, e), ToInt(HSlots(i)))
                        < Dist(Home(j, ToInt(HSlots(i))), SlotOfRec(i, j), ToInt(HSlots(i)))

\* KeyHH and then KeyBB, both with home slot 3 of a table of 4: KeyBB has
\* wrapped around to slot 0
C18_Witness ==
    /\ Finished
    /\ Len(added) = 2 /\ added[1].key = KeyHH /\ added[2].key = KeyBB
    /\ HSlots(5) = N(4) /\ Home(1, 4) = 3 /\ Home(2, 4) = 3
    /\ SlotOfRec(5, 1) = 3 /\ SlotOfRec(5, 2) = 0

\* the writes sunk[from..to] are sequential: each begins where the one
\* before it ended
Sequential(from, to) ==
    \A i \in from..to :
        /\ sunk[i].op = "write"
        /\ sunk[i - 1].op = "write"
        /\ sunk[i].at = Plus(sunk[i - 1].at, sunk[i - 1].buf.len)

\* the number of operations the sink receives before finish() flushes it:
\* the seek and the write of new, three writes for each add, one for each slot
BodyOps == 2 + 3 * Len(added) + 2 * Len(added)

\* C19: the sink receives a seek to 0 and a write of 2048 zero bytes, then
\* only writes that each begin where the one before ended (lengths, key and
\* data of each add, then the slots), and at finish a flush, a seek to 0, one
\* write of the 2048-byte header and a flush; the header is the last write,
\* and no write after the first begins below the end of an earlier one except
\* the header's, which covers [0, 2048) only.
C19_SinkOrder ==
    /\ ~panicked
    /\ Len(sunk) >= 2
    /\ sunk[1] = [op |-> "seek", to |-> N(0)]
    /\ sunk[2] = [op |-> "write", at |-> N(0), buf |-> Zeros(N(HeaderSize))]
    /\ make # None =>
          /\ Len(sunk) = 2 + 3 * Len(added)
          /\ Sequential(3, Len(sunk))
    /\ make = None =>
          /\ Len(sunk) = BodyOps + 4
          /\ Sequential(3, BodyOps)
          /\ sunk[BodyOps + 1] = [op |-> "flush"]
          /\ sunk[BodyOps + 2] = [op |-> "seek", to |-> N(0)]
          /\ sunk[BodyOps + 3].op = "write"
          /\ sunk[BodyOps + 3].at = N(0)
          /\ sunk[BodyOps + 3].buf.len = N(HeaderSize)
          /\ sunk[BodyOps + 4] = [op |-> "flush"]
          /\ image = Some(Overwrite(Slice(image[1], N(0),
                                          Plus(sunk[BodyOps].at, sunk[BodyOps].buf.len)),
                                    N(0), sunk[BodyOps + 3].buf))

\* finish() has written two records' slots and then the header
C19_Witness ==
    /\ make = None /\ Len(added) = 2 /\ image # None
    /\ Len(sunk) = 16
    /\ sunk[12].op = "write" /\ sunk[12].buf.len = N(8)
    /\ sunk[15].op = "write" /\ sunk[15].at = N(0)

\* ------------------------------------------------------------------------
\* SpecAdv: the reader over arbitrary images
\*
\* An image is all zero except for five places: the first header word, the
\* header entry of bucket 5 (the bucket of the empty key), the record header
\* at 2048 and the slots at 2064 and 2072 (a table of two slots at 2064 is
\* probed from 2072 for the empty key).  A place that does not fit the image
\* is left out.
\* ------------------------------------------------------------------------
PutWords(s, at, words) ==
    IF Le(Plus(at, N(8)), s.len) THEN Overwrite(s, at, Bytes(pack2(words[1], words[2])))
    ELSE s

AdvLens == {N(0), N(1024), N(2063), N(MinSize), N(2080), U32Max, Plus(U32Max, N(1))}

\* the first header entry: (hpos, hslots) of bucket 0; hpos is the data end
AdvEnds == {<<N(2064), N(0)>>, <<N(2072), N(0)>>}

\* the header entry of bucket 5
AdvTables ==
    {<<N(0), N(0)>>, <<N(2064), N(1)>>, <<N(2064), N(2)>>, <<<<Base - 1, Base - 8>>, N(2)>>}

\* (klen, dlen) at 2048; with dlen = 4096 the value reaches past the end of
\* the image
AdvRecords ==
    {<<N(0), N(0)>>, <<N(1), N(1)>>, <<N(0), N(15)>>, <<N(0), N(16)>>, <<N(0), N(4096)>>}

\* (hash, pos) of a slot: empty, the record at 2048, a record whose header
\* lies past the end of the image, and the eight zero bytes of header entry 1
\* read as a record with an empty key and an empty value
AdvSlots ==
    {<<N(0), N(0)>>, <<N(HashStart), N(HeaderSize)>>, <<N(HashStart), N(4096)>>,
     <<N(HashStart), N(8)>>}

AdvImage(len, e, t, r, sl, sl2) ==
    PutWords(PutWords(PutWords(PutWords(PutWords(Zeros(len), N(0), e), N(40), t),
                               N(HeaderSize), r),
                      N(2064), sl),
             N(2072), sl2)

AdvImages ==
    {AdvImage(len, e, t, r, sl, sl2) :
        len \in AdvLens, e \in AdvEnds, t \in AdvTables, r \in AdvRecords,
        sl \in AdvSlots, sl2 \in AdvSlots}

AdvKeys == {KeyEmpty, KeyH}

InitAdv ==
    /\ make = None
    /\ image \in {Some(b) : b \in AdvImages}
    /\ cdb = None
    /\ viter = None
    /\ kviter = None
    /\ vout = NoOut
    /\ kvout = NoItems
    /\ added = <<>>
    /\ last = [op |-> "image", res |-> "Ok"]
    /\ panicked = FALSE
    /\ fs = <<>>
    /\ writer = None
    /\ before = None
    /\ pool = NoPool
    /\ vb = None
    /\ sunk = <<>>

NextAdv ==
    \/ Open
    \/ FromFiledes
    \/ CopyFromSlice
    \/ \E key \in AdvKeys : Find(key)
    \/ \E key \in AdvKeys : Get(key)
    \/ ValueNext
    \/ Iter
    \/ KeyValueNext
    \/ DropIter

SpecAdv == InitAdv /\ [][NextAdv]_vars

\* ------------------------------------------------------------------------
\* Claims checked under SpecAdv
\* ------------------------------------------------------------------------
\* C4: over an image of 2064 <= len < 2^32 bytes with any contents, every
\* find, next and get returns (a value inside the image, or the end): none
\* of them panics or indexes the image out of range.
C4_LookupSafe ==
    (image # None /\ ~LenRejected(image[1].len) /\ last.op \in {"find", "next", "get"})
        => last.res # "panic"

\* C5: each of open, from_filedes and copy_from_slice fails with BadFormat
\* exactly when the image is shorter than 2064 bytes or 2^32 bytes or longer,
\* so no reader exists over an image shorter than 2064 bytes.
C5_LengthChecked ==
    /\ last.op \in {"open", "from_filedes", "copy_from_slice"} =>
          (last.res = "BadFormat" <=> LenRejected(image[1].len))
    /\ cdb # None => ~Lt(cdb[1].file.len, N(MinSize))

\* the claim's data_end: min(first header word, image length)
DataEnd == MinW(unpack(image[1], N(0)), image[1].len)

\* the end of the record at pos: pos + 8 + klen + dlen
RecordEnd(pos) ==
    Plus(Plus(Plus(pos, N(8)), unpack(image[1], pos)), unpack(image[1], Plus(pos, N(4))))

\* C8: a next() of the full iteration at a position pos with
\* pos + 8 < data_end yields BadFormat exactly when
\* pos + 8 + klen + dlen > data_end, and otherwise the key and the value
\* stored in [pos + 8, pos + 8 + klen + dlen); it does not panic.
C8_OverrunDetected ==
    [][(/\ kviter # None /\ last'.op = "iter.next"
        /\ ~LenRejected(image[1].len)
        /\ Lt(Plus(kviter[1].pos, N(8)), DataEnd))
       => IF panicked' THEN FALSE
          ELSE IF Lt(DataEnd, RecordEnd(kviter[1].pos))
          THEN last'.res = Some(BadFormat)
          ELSE /\ last'.res # None
               /\ last'.res[1].ok
               /\ Le(Plus(last'.res[1].key.len, last'.res[1].value.len),
                     Minus(DataEnd, Plus(kviter[1].pos, N(8))))]_vars

\* C9: a full iteration over an image a reader accepts yields at most one
\* error, and nothing after it: once next() has yielded BadFormat every later
\* next() returns the end.
C9_EndsAfterError ==
    (image # None /\ ~LenRejected(image[1].len)) =>
        \A i \in 1..Len(kvout.items) : kvout.items[i].ok \/ i = Len(kvout.items)

\* C20: once next() on a find iterator has returned the end, for whatever
\* reason, every later next() on that iterator returns the end too.
C20_EndIsFinal ==
    [][(/\ image # None /\ ~LenRejected(image[1].len)
        /\ viter # None /\ vout.ends > 0
        /\ last'.op = "next" /\ ~panicked')
       => last'.res = None]_vars

\* C22: over an image of 2064 <= len < 2^32 bytes with any contents, no
\* find, next or get makes a u32 addition that exceeds 2^32 - 1: the call
\* neither panics on the overflow nor goes on with a wrapped offset.
C22_NoLookupOverflow ==
    [][(cdb # None /\ image # None /\ ~LenRejected(image[1].len))
       => /\ last'.op = "find" =>
                /\ ~panicked'
                /\ \A key \in AdvKeys :
                      viter' = Some(CDBValueIter_find(cdb[1], key).it)
                        => ~CDBValueIter_find(cdb[1], key).ovf
          /\ (last'.op = "next" /\ viter # None) =>
                /\ ~panicked'
                /\ ~CDBValueIter_next(cdb[1], viter[1], FALSE).ovf
          /\ last'.op = "get" =>
                /\ ~panicked'
                /\ ~CDB_get(cdb[1], last'.key).ovf]_vars

\* ------------------------------------------------------------------------
\* SpecAtomic: one CDBWriter from create to finish or drop, with system calls
\* that may fail.  A caller that gets an error from add does not go on with
\* the build: it drops the writer.
\* ------------------------------------------------------------------------
\* the most sink operations that succeed before one fails
MaxFail == 3

Budgets == {NeverFails} \cup 0..MaxFail

Dest == <<"db.cdb">>

TmpPath == Dest \o TmpSuffix

OldImage == Bytes(<<9, 9>>)

AtomicKeys == {KeyEmpty, KeyH}

InitAtomic ==
    /\ make = None
    /\ image = None
    /\ cdb = None
    /\ viter = None
    /\ kviter = None
    /\ vout = NoOut
    /\ kvout = NoItems
    /\ added = <<>>
    /\ last = [op |-> "start", res |-> "Ok"]
    /\ panicked = FALSE
    /\ fs \in {[p \in {Dest, TmpPath} |-> IF p = Dest THEN d ELSE None] :
                 d \in {None, Some(OldImage)}}
    /\ writer = None
    /\ before = None
    /\ pool = NoPool
    /\ vb = None
    /\ sunk = <<>>

WriterCreate ==
    /\ writer = None /\ last.op = "start"
    /\ \E createOk \in BOOLEAN, left \in Budgets :
         \E r \in {CDBWriter_create(fs, Dest, createOk, left)} :
           /\ fs' = r.fs
           /\ writer' = r.ret
           /\ before' = fs[Dest]
           /\ last' = [op |-> "create", res |-> r.res]
           /\ UNCHANGED <<make, image, cdb, viter, kviter, vout, kvout, added, panicked, pool, vb, sunk>>

WriterAdd(key, data) ==
    /\ writer # None /\ last.res = "Ok" /\ Len(added) < MaxRecs
    /\ \E left \in Budgets :
         \E r \in {CDBWriter_add(fs, writer[1], key, data, left)} :
           /\ fs' = r.fs
           /\ writer' = Some(r.wr)
           /\ added' = IF r.res = "Ok"
                       THEN Append(added, [key |-> key, value |-> data])
                       ELSE added
           /\ last' = [op |-> "writer.add", res |-> r.res]
           /\ UNCHANGED <<make, image, cdb, viter, kviter, vout, kvout, panicked, before, pool, vb, sunk>>

\* finish(mut self): self is dropped when finish returns
WriterFinish ==
    /\ writer # None /\ last.res = "Ok"
    /\ \E left \in Budgets, renameOk \in BOOLEAN, removeOk \in BOOLEAN :
         \E r \in {CDBWriter_finish(fs, writer[1], left, renameOk, removeOk)} :
           /\ fs' = r.fs
           /\ writer' = None
           /\ last' = [op |-> "writer.finish", res |-> r.res]
           /\ UNCHANGED <<make, image, cdb, viter, kviter, vout, kvout, added, panicked, before, pool, vb, sunk>>

\* the writer goes out of scope without finish; last.res is what remove_file
\* returned and last.failed whether the writer had reported an error
WriterDrop ==
    /\ writer # None
    /\ \E removeOk \in BOOLEAN :
           /\ fs' = CDBWriter_drop(fs, writer[1], removeOk)
           /\ writer' = None
           /\ last' = [op |-> "drop", res |-> IF removeOk THEN "Ok" ELSE "Io",
                       failed |-> last.res # "Ok"]
           /\ UNCHANGED <<make, image, cdb, viter, kviter, vout, kvout, added, panicked, before, pool, vb, sunk>>

NextAtomic ==
    \/ WriterCreate
    \/ \E key \in AtomicKeys, data \in Vals : WriterAdd(key, data)
    \/ WriterFinish
    \/ WriterDrop

SpecAtomic == InitAtomic /\ [][NextAtomic]_vars

\* ------------------------------------------------------------------------
\* Claims checked under SpecAtomic
\* ------------------------------------------------------------------------
\* the parts of C6 that are not about the removal of the temporary file
AtomicReplace ==
    /\ (last.op = "writer.finish" /\ last.res = "Ok") =>
          /\ fs[Dest] = Some(ImageOf(added))
          /\ fs[TmpPath] = None
    /\ ~(last.op = "writer.finish" /\ last.res = "Ok") =>
          (last.op = "start" \/ fs[Dest] = before)

C7_DiscardedOnError ==
    /\ (last.op = "writer.finish" /\ last.res # "Ok") =>
          (fs[TmpPath] = None /\ fs[Dest] = before)
    /\ (last.op = "drop" /\ last.failed /\ last.res = "Ok") =>
          (fs[TmpPath] = None /\ fs[Dest] = before)

\* ------------------------------------------------------------------------
\* SpecPos: CDBMake::add and finish at positions up to 2^32.  The values are
\* runs of zero bytes long enough to bring pos next to 2^32 - 1 in one add.
\* A caller may go on after an add has returned an error.
\* ------------------------------------------------------------------------
\* the data length that brings a fresh writer to pos = 2^32 - 1 with an
\* empty key: 2^32 - 1 - 2048 - 8
FillLen == Minus(U32Max, N(HeaderSize + 8))

PosLens ==
    {N(0), N(1),
     Minus(FillLen, N(10)),     \* leaves room for exactly 10 more bytes
     Minus(FillLen, N(9)),      \* a later add overflows at pos_plus(keylen)
     Minus(FillLen, N(8)),      \* a later add overflows at pos_plus(datalen)
     FillLen,                   \* pos + 8 + klen + dlen = 2^32 - 1
     Plus(FillLen, N(1)),       \* pos + 8 + klen + dlen = 2^32
     Minus(U32Max, N(1)),       \* the longest data add() accepts
     <<Base \div 2, 0>>}        \* 2^31: two of them overflow

PosKeys == {KeyEmpty, KeyHH}

PosRecords == (PosKeys \X {Zeros(n) : n \in PosLens}) \cup ({KeyEmpty} \X Oversized)

\* add() called on a writer that has pushed fewer than MaxRecs entries (an
\* add that fails with TooBig has pushed its entry all the same)
AddAt(key, data) ==
    /\ make # None
    /\ Count(make[1].entries) < MaxRecs
    /\ Add(key, data)

NextPos ==
    \/ \E r \in PosRecords : AddAt(r[1], r[2])
    \/ Finish

SpecPos == Init /\ [][NextPos]_vars

\* ------------------------------------------------------------------------
\* Claims checked under SpecPos
\* ------------------------------------------------------------------------
\* C11: an add() of an accepted key and data at position pos returns TooBig
\* exactly when pos + 8 + klen + dlen exceeds 2^32 - 1 and otherwise
\* succeeds with pos advanced by exactly 8 + klen + dlen; it never panics
\* and pos never wraps.
C11_PositionOverflow ==
    [][(make # None /\ last'.op = "add") =>
         /\ ~panicked'
         /\ ~TooLargeArgs(last') =>
              /\ last'.res = "TooBig"
                   <=> ~Fits32(Plus(Plus(Plus(make[1].pos, N(8)), last'.klen), last'.dlen))
              /\ Fits32(Plus(Plus(Plus(make[1].pos, N(8)), last'.klen), last'.dlen)) =>
                   /\ last'.res = "Ok"
                   /\ make'[1].pos
                        = Plus(Plus(Plus(make[1].pos, N(8)), last'.klen), last'.dlen)]_vars

\* C11 for a build without overflow checks, where the additions wrap
C11_WrappingBuild ==
    [][(make # None /\ last'.op = "add" /\ ~panicked' /\ ~TooLargeArgs(last')) =>
         /\ last'.res = "TooBig"
              <=> ~Fits32(Plus(Plus(Plus(make[1].pos, N(8)), last'.klen), last'.dlen))
         /\ Fits32(Plus(Plus(Plus(make[1].pos, N(8)), last'.klen), last'.dlen)) =>
              /\ last'.res = "Ok"
              /\ make'[1].pos
                   = Plus(Plus(Plus(make[1].pos, N(8)), last'.klen), last'.dlen)]_vars

\* the pending entry of the j-th record added: the entries of its bucket are
\* in the order of the adds
EntryOf(j) ==
    make[1].entries[Low8(hash(added[j].key))]
        [Cardinality({n \in InBucket(Low8(hash(added[j].key))) : n <= j})]

\* the sink holds the j-th record added at p: length prefix, key and value
SinkRecordAt(p, j) ==
    /\ Le(Plus(Plus(Plus(p, N(8)), added[j].key.len), added[j].value.len),
          make[1].file.inner.len)
    /\ unpack2(make[1].file.inner, p) = <<added[j].key.len, added[j].value.len>>
    /\ Slice(make[1].file.inner, Plus(p, N(8)), Plus(Plus(p, N(8)), added[j].key.len))
         = added[j].key
    /\ Slice(make[1].file.inner, Plus(Plus(p, N(8)), added[j].key.len),
             Plus(Plus(Plus(p, N(8)), added[j].key.len), added[j].value.len))
         = added[j].value

\* C23: after new and after every add, failed ones included, pos is the
\* number of bytes in the sink, each bucket holds one pending entry per
\* record added to it and none for an add that failed, and the entry of a
\* record holds the sink offset where the record's length prefix begins.
C23_CursorInvariant ==
    (make # None /\ last.op \in {"new", "add"}) =>
        /\ make[1].pos = make[1].file.inner.len
        /\ \A i \in Buckets : Len(make[1].entries[i]) = Cardinality(InBucket(i))
        /\ \A j \in 1..Len(added) :
              /\ EntryOf(j).hash = hash(added[j].key)
              /\ SinkRecordAt(EntryOf(j).pos, j)

\* ------------------------------------------------------------------------
\* SpecScratch: CDBMake::finish over several non-empty buckets, so that the
\* scratch table is used for one bucket after another.  The keys fall in
\* buckets 0, 5 (two of them), 205 and 255; one value is long enough for a
\* second add to fail with TooBig and leave its entry pending.
\* ------------------------------------------------------------------------
\* bucket 0
KeyA5 == Bytes(<<165>>)

\* bucket 255
KeyZ == Bytes(<<90>>)

ScratchKeys == {KeyA5, KeyEmpty, KeyHH, KeyH, KeyZ}

ScratchRecords ==
    (ScratchKeys \X Vals) \cup ({KeyEmpty, KeyH} \X {Zeros(<<Base \div 2, 0>>)})

NextScratch ==
    \/ \E r \in ScratchRecords : AddAt(r[1], r[2])
    \/ Finish

SpecScratch == Init /\ [][NextScratch]_vars

\* finish() as it enters `for i in 0..256`
FinishStart(w) ==
    [w      |-> w,
     header |-> [x \in 1..HeaderSize |-> 0],
     table  |-> [k \in 1..MaxSize(w.entries) |-> EmptySlot]]

RECURSIVE ProbeWithin(_, _, _, _)
\* the probing loop run for at most n more slots: TRUE when it has left the
\* loop at an empty slot
ProbeWithin(table, wh, len, n) ==
    IF n = 0 THEN FALSE
    ELSE IF table[wh + 1].pos = N(0) THEN TRUE
    ELSE ProbeWithin(table, IF wh + 1 = len THEN 0 ELSE wh + 1, len, n - 1)

RECURSIVE InsertsEnd(_, _, _)
\* the insertions of one bucket: the modulo is taken with len > 0 and every
\* probe ends within len slots
InsertsEnd(table, es, len) ==
    IF es = <<>> THEN TRUE
    ELSE /\ len > 0
         /\ ProbeWithin(table, Shr8(Head(es).hash) % len, len, len)
         /\ InsertsEnd(InsertEntries(table, <<Head(es)>>, len), Tail(es), len)

\* bucket i processed from st: the scratch table is empty on entry, the
\* pending entries are not the empty marker, the insertions end, and the
\* table then holds entries of bucket i only, in its first len slots
BucketClean(st, i) ==
    /\ \A k \in DOMAIN st.table : st.table[k] = EmptySlot
    /\ \A n \in DOMAIN st.w.entries[i] :
           /\ Le(N(HeaderSize), st.w.entries[i][n].pos)
           /\ Low8(st.w.entries[i][n].hash) = i
    /\ InsertsEnd(st.table, st.w.entries[i], Len(st.w.entries[i]) * 2)
    /\ \A k \in DOMAIN st.table :
           InsertEntries(st.table, st.w.entries[i], Len(st.w.entries[i]) * 2)[k] # EmptySlot
             => /\ k <= Len(st.w.entries[i]) * 2
                /\ \E n \in DOMAIN st.w.entries[i] :
                     InsertEntries(st.table, st.w.entries[i],
                                   Len(st.w.entries[i]) * 2)[k] = st.w.entries[i][n]

RECURSIVE ScratchWalk(_, _, _)
\* the iterations lo..hi-1 of the loop of finish(), each entered only when
\* the ones before it were clean (the range is halved as in FinishLoop)
ScratchWalk(c, lo, hi) ==
    IF ~c.clean \/ c.st.w.res # "Ok" THEN c
    ELSE IF hi - lo = 1
         THEN IF BucketClean(c.st, lo)
              THEN [st |-> FinishBucket(c.st, lo), clean |-> TRUE]
              ELSE [st |-> c.st, clean |-> FALSE]
    ELSE ScratchWalk(ScratchWalk(c, lo, (lo + hi) \div 2), (lo + hi) \div 2, hi)

\* ------------------------------------------------------------------------
\* Claims checked under SpecScratch
\* ------------------------------------------------------------------------
\* C21: whenever finish() runs, the scratch table is entirely empty at the
\* start of every bucket, every pending entry has pos >= 2048, each probe
\* finds an empty slot within len slots (the modulo is never taken with
\* len = 0), and the table of bucket i holds entries of bucket i only.
C21_ScratchReuse ==
    [][(make # None /\ last'.op = "finish" /\ MaxSize(make[1].entries) + Count(make[1].entries) <= TableLimit)
         => ScratchWalk([st |-> FinishStart(Begin(make[1], NeverFails)), clean |-> TRUE],
                        0, NBuckets).clean]_vars

\* finish() has succeeded over two non-empty buckets, the scratch table
\* used for the first and then for the second
C21_Witness ==
    /\ ~panicked /\ last.op = "finish" /\ last.res = "Ok"
    /\ Len(added) = MaxRecs
    /\ \E a, b \in 1..Len(added) :
           Low8(hash(added[a].key)) < Low8(hash(added[b].key))

\* ------------------------------------------------------------------------
\* SpecConc: several iterators alive over one reader, their next() calls
\* interleaved in every order.  An iterator of the pool is a record
\*   kind  : "find" (a CDBValueIter) or "iter" (a CDBKeyValueIter)
\*   start : the iterator as find() or iter() returned it
\*   it    : the iterator as it is now
\*   out   : what its next() calls have returned so far, in order
\* ------------------------------------------------------------------------
\* one call of next() on an iterator of the given kind
Outcome(r, panic) == [it |-> r.it, ret |-> r.ret, panic |-> panic]

ValueOutcome(r) == Outcome(r, r.ovf)

KeyValueOutcome(r) == Outcome(r, r.panic \/ r.ovf)

NextOf(c, kind, it) ==
    IF kind = "find" THEN ValueOutcome(CDBValueIter_next(c, it, FALSE))
    ELSE KeyValueOutcome(CDBKeyValueIter_next(c, it))

\* next(&mut self) of iterator id has returned r, and every iterator of the
\* same kind has been moved to where iterator id now is
Stepped_SharedCursor(p, id, r) ==
    [j \in DOMAIN p |->
        IF p[j] = None THEN None
        ELSE IF j = id THEN Some([p[j][1] EXCEPT !.it = r.it, !.out = Append(@, r.ret)])
        ELSE IF p[j][1].kind = p[id][1].kind THEN Some([p[j][1] EXCEPT !.it = r.it])
        ELSE p[j]]

\* next(&mut self) of iterator id has returned r: the call has the iterator's
\* own fields to change and a shared reference to the reader
Stepped(p, id, r) ==
    [p EXCEPT ![id] = Some([p[id][1] EXCEPT !.it = r.it, !.out = Append(@, r.ret)])]

Created(id, kind, it) ==
    /\ pool' = [pool EXCEPT ![id] = Some([kind |-> kind, start |-> it, it |-> it,
                                          out |-> <<>>])]
    /\ last' = [op |-> kind, id |-> id, res |-> "Ok"]
    /\ UNCHANGED <<make, image, cdb, viter, kviter, vout, kvout, added, panicked,
                   fs, writer, before, vb, sunk>>

PoolFind(id, key) ==
    /\ ~panicked /\ cdb # None /\ pool[id] = None
    /\ \E f \in {CDBValueIter_find(cdb[1], key)} :
           \/ /\ f.panic \/ f.ovf
              /\ Panic("find")
           \/ /\ ~f.panic
              /\ Created(id, "find", f.it)

PoolIter(id) ==
    /\ ~panicked /\ cdb # None /\ pool[id] = None
    /\ \E s \in {CDBKeyValueIter_start(cdb[1])} :
           \/ /\ s.panic
              /\ Panic("iter")
           \/ /\ ~s.panic
              /\ Created(id, "iter", s.it)

PoolNext(id) ==
    /\ ~panicked /\ pool[id] # None /\ Len(pool[id][1].out) < MaxCalls
    /\ \E r \in {NextOf(cdb[1], pool[id][1].kind, pool[id][1].it)} :
           \/ /\ r.panic
              /\ Panic("next")
           \/ /\ ~r.panic
              /\ pool' = Stepped(pool, id, r)
              /\ last' = [op |-> "next", id |-> id, res |-> r.ret]
              /\ UNCHANGED <<make, image, cdb, viter, kviter, vout, kvout, added,
                             panicked, fs, writer, before, vb, sunk>>

\* the caller drops iterator id
PoolDrop(id) ==
    /\ ~panicked /\ pool[id] # None
    /\ pool' = [pool EXCEPT ![id] = None]
    /\ last' = [op |-> "drop", id |-> id, res |-> "Ok"]
    /\ UNCHANGED <<make, image, cdb, viter, kviter, vout, kvout, added, panicked,
                   fs, writer, before, vb, sunk>>

\* the build whose image is read: two values under one key with a key of the
\* same hash between them
ConcBuilds ==
    {<<[key |-> KeyHH, value |-> Bytes(<<7>>)],
       [key |-> KeyII, value |-> Bytes(<<>>)],
       [key |-> KeyHH, value |-> Bytes(<<>>)]>>}

ConcKeys == {KeyHH, KeyII}

InitConc ==
    /\ make = None
    /\ \E b \in ConcBuilds :
           /\ added = b
           /\ image = Some(ImageOf(b))
           /\ cdb = CDB_open(ImageOf(b))
    /\ viter = None
    /\ kviter = None
    /\ vout = NoOut
    /\ kvout = NoItems
    /\ last = [op |-> "open", res |-> "Ok"]
    /\ panicked = FALSE
    /\ fs = <<>>
    /\ writer = None
    /\ before = None
    /\ pool = NoPool
    /\ vb = None
    /\ sunk = <<>>

NextConc ==
    \/ \E id \in 1..MaxIters, key \in ConcKeys : PoolFind(id, key)
    \/ \E id \in 1..MaxIters : PoolIter(id)
    \/ \E id \in 1..MaxIters : PoolNext(id)
    \/ \E id \in 1..MaxIters : PoolDrop(id)

SpecConc == InitConc /\ [][NextConc]_vars

\* ------------------------------------------------------------------------
\* Claims checked under SpecConc
\* ------------------------------------------------------------------------
RECURSIVE RunAlone(_, _, _)
\* the iterator e after n more calls of next() with no other iterator around
RunAlone(c, e, n) ==
    IF n = 0 THEN e
    ELSE RunAlone(c, Stepped(<<Some(e)>>, 1, NextOf(c, e.kind, e.it))[1][1], n - 1)

\* C16: under every interleaving of the next() calls of the iterators alive
\* over one reader, each iterator has returned exactly what it returns when
\* it is run alone from its start, and a next() call changes neither the
\* reader, nor the image, nor any iterator but its own.
C16_ConcurrentReads ==
    [][/\ cdb' = cdb
       /\ image' = image
       /\ ~panicked'
       /\ \A id \in 1..MaxIters :
             IF pool'[id] = pool[id] \/ pool'[id] = None THEN TRUE
             ELSE /\ last'.id = id
                  /\ pool'[id][1] = RunAlone(cdb'[1],
                                             [pool'[id][1] EXCEPT !.it = pool'[id][1].start,
                                                                  !.out = <<>>],
                                             Len(pool'[id][1].out))]_vars

\* two find iterators for KeyHH over the same reader: iterator 1 has returned
\* both values, and iterator 2, stepped after it, has returned the first
C16_Witness ==
    /\ pool[1] # None /\ pool[2] # None
    /\ pool[1][1].kind = "find" /\ pool[2][1].kind = "find"
    /\ pool[1][1].start = pool[2][1].start
    /\ pool[1][1].start.key = KeyHH
    /\ pool[1][1].out = <<Some(Bytes(<<7>>)), Some(Bytes(<<>>))>>
    /\ pool[2][1].out = <<Some(Bytes(<<7>>))>>
    /\ last.op = "next" /\ last.id = 2

\* ------------------------------------------------------------------------
\* vecbuf.rs: the two VecBuf implementations, call by call
\*
\* A call returns a record [f, res, data, panic]: the VecBuf after the call,
\* the Result it returns (the count or position of Ok, or "InvalidInput"),
\* the bytes a read has stored in the caller's buffer, and whether the call
\* panics.  A SeekFrom is a style ("Start", "End", "Current") and an offset.
\* ------------------------------------------------------------------------
Returned(f, res, data) == [f |-> f, res |-> res, data |-> data, panic |-> FALSE]

Panicked(f) == [f |-> f, res |-> "panic", data |-> Zeros(N(0)), panic |-> TRUE]

\* base.checked_add_signed(offset) and the assignment of the position
SeekSigned(f, base, n) ==
    IF ToInt(base) + n < 0 THEN Returned(f, "InvalidInput", Zeros(N(0)))
    ELSE Returned([f EXCEPT !.pos = N(ToInt(base) + n)], N(ToInt(base) + n), Zeros(N(0)))

\* vecbuf_nostd::VecBuf: read into a buffer of n bytes.  inner.len() - pos
\* underflows when the cursor is past the end: a build with overflow checks
\* panics there, one without them panics at the slice that follows; and
\* copy_from_slice panics unless the buffer is exactly readsize bytes long
vecbuf_nostd_read(f, n) ==
    IF Lt(f.inner.len, f.pos) THEN Panicked(f)
    ELSE IF MinW(n, Minus(f.inner.len, f.pos)) # n THEN Panicked(f)
    ELSE Returned([f EXCEPT !.pos = Plus(f.pos, n)], n,
                  Slice(f.inner, f.pos, Plus(f.pos, n)))

\* vecbuf_nostd::VecBuf: write; the subtraction and the slice are those of read
vecbuf_nostd_write(f, buf) ==
    IF Lt(f.inner.len, f.pos) THEN Panicked(f)
    ELSE Returned(VecBuf_write(f, buf), buf.len, Zeros(N(0)))

vecbuf_nostd_seek(f, style, n) ==
    IF style = "Start" THEN Returned(VecBuf_seek(f, N(n)), N(n), Zeros(N(0)))
    ELSE IF style = "End" THEN SeekSigned(f, f.inner.len, n)
    ELSE SeekSigned(f, f.pos, n)

vecbuf_nostd_flush(f) == Returned(f, "Ok", Zeros(N(0)))

\* vecbuf_std::VecBuf, that is io::Cursor<Vec<u8>>: a read returns the bytes
\* that remain, up to n of them
vecbuf_std_read(f, n) ==
    Returned([f EXCEPT !.pos = Plus(f.pos, MinW(n, Minus(f.inner.len,
                                                          MinW(f.pos, f.inner.len))))],
             MinW(n, Minus(f.inner.len, MinW(f.pos, f.inner.len))),
             Slice(f.inner, MinW(f.pos, f.inner.len),
                   Plus(MinW(f.pos, f.inner.len),
                        MinW(n, Minus(f.inner.len, MinW(f.pos, f.inner.len))))))

\* io::Cursor<Vec<u8>>: a write past the end first fills the gap with zeros
vecbuf_std_write(f, buf) ==
    IF Lt(f.inner.len, f.pos)
    THEN Returned(VecBuf_write([f EXCEPT !.inner = Extend(f.inner,
                                                          Zeros(Minus(f.pos, f.inner.len)))],
                               buf),
                  buf.len, Zeros(N(0)))
    ELSE Returned(VecBuf_write(f, buf), buf.len, Zeros(N(0)))

vecbuf_std_seek(f, style, n) ==
    IF style = "Start" THEN Returned([f EXCEPT !.pos = N(n)], N(n), Zeros(N(0)))
    ELSE IF style = "End" THEN SeekSigned(f, f.inner.len, n)
    ELSE SeekSigned(f, f.pos, n)

vecbuf_std_flush(f) == Returned(f, "Ok", Zeros(N(0)))

\* ------------------------------------------------------------------------
\* SpecVec: a no_std VecBuf and a std VecBuf receive the same calls
\* ------------------------------------------------------------------------
\* the longest buffer and the farthest position
MaxVec == 3

VecBufs == {Bytes(<<>>), Bytes(<<1>>), Bytes(<<2, 3>>)}

VecSeeks ==
    ({"Start"} \X (0..MaxVec)) \cup ({"End"} \X {0 - 1, 0, 1}) \cup ({"Current"} \X {0 - 1, 1})

\* both VecBufs have returned from the same call
Called(op, a, b) ==
    \/ /\ a.panic
       /\ Panic(op)
    \/ /\ ~a.panic
       /\ vb' = Some([nostd |-> a.f, std |-> b.f,
                      res   |-> [nostd |-> a.res, std |-> b.res],
                      data  |-> [nostd |-> a.data, std |-> b.data]])
       /\ last' = [op |-> op, res |-> a.res]
       /\ UNCHANGED <<make, image, cdb, viter, kviter, vout, kvout, added, panicked,
                      fs, writer, before, pool, sunk>>

VbSeek(style, n) ==
    /\ ~panicked /\ vb # None
    /\ style = "Start" \/ ToInt(vb[1].std.pos) + n <= MaxVec
    /\ style = "Start" \/ ToInt(vb[1].std.inner.len) + n <= MaxVec
    /\ Called("vecbuf.seek", vecbuf_nostd_seek(vb[1].nostd, style, n),
              vecbuf_std_seek(vb[1].std, style, n))

VbWrite(buf) ==
    /\ ~panicked /\ vb # None
    /\ ToInt(vb[1].std.pos) + ToInt(buf.len) <= MaxVec
    /\ Called("vecbuf.write", vecbuf_nostd_write(vb[1].nostd, buf),
              vecbuf_std_write(vb[1].std, buf))

VbRead(n) ==
    /\ ~panicked /\ vb # None
    /\ Called("vecbuf.read", vecbuf_nostd_read(vb[1].nostd, N(n)),
              vecbuf_std_read(vb[1].std, N(n)))

VbFlush ==
    /\ ~panicked /\ vb # None
    /\ Called("vecbuf.flush", vecbuf_nostd_flush(vb[1].nostd),
              vecbuf_std_flush(vb[1].std))

InitVec ==
    /\ make = None
    /\ image = None
    /\ cdb = None
    /\ viter = None
    /\ kviter = None
    /\ vout = NoOut
    /\ kvout = NoItems
    /\ added = <<>>
    /\ last = [op |-> "vecbuf.new", res |-> "Ok"]
    /\ panicked = FALSE
    /\ fs = <<>>
    /\ writer = None
    /\ before = None
    /\ pool = NoPool
    /\ vb = Some([nostd |-> VecBuf_new, std |-> VecBuf_new,
                  res   |-> [nostd |-> "Ok", std |-> "Ok"],
                  data  |-> [nostd |-> Zeros(N(0)), std |-> Zeros(N(0))]])
    /\ sunk = <<>>

NextVec ==
    \/ \E sk \in VecSeeks : VbSeek(sk[1], sk[2])
    \/ \E buf \in VecBufs : VbWrite(buf)
    \/ \E n \in 0..2 : VbRead(n)
    \/ VbFlush

SpecVec == InitVec /\ [][NextVec]_vars

\* ------------------------------------------------------------------------
\* Claims checked under SpecVec
\* ------------------------------------------------------------------------
\* C17: after every sequence of seek, write, read and flush calls the no_std
\* VecBuf has returned what the std VecBuf (io::Cursor<Vec<u8>>) has returned
\* and holds the same bytes and the same position; no call panics.
C17_VecBufEquivalent ==
    /\ ~panicked
    /\ vb # None =>
          /\ vb[1].nostd = vb[1].std
          /\ vb[1].res.nostd = vb[1].res.std
          /\ vb[1].data.nostd = vb[1].data.std

\* C17 for the calls the no_std VecBuf returns from
C17_EqualWhenReturning ==
    vb # None =>
        /\ vb[1].nostd = vb[1].std
        /\ vb[1].res.nostd = vb[1].res.std
        /\ vb[1].data.nostd = vb[1].data.std

====
